---- MODULE Spec2Model ----
(***************************************************************************)
(* Model of the lexer of oxy-python (src/parser/lexer.rs).                 *)
(*                                                                         *)
(* A character is a string: the ASCII characters stand for themselves and  *)
(* "U+00E9" is the two-byte alphabetic character e-acute.  A Rust String   *)
(* is the sequence of its characters.  One behaviour of the model is one   *)
(* call of lex: Init is the state at the top of the dispatch loop for some *)
(* input, every action is one arm of the dispatch match (with everything   *)
(* the arm calls), and pc records how the call returned.                   *)
(***************************************************************************)
EXTENDS Integers, Sequences, FiniteSets, TLC

VARIABLES string, chars, maybe_c, column, line, result, pc, err

vars == <<string, chars, maybe_c, column, line, result, pc, err>>

(* ---------------- bounds of the checked inputs ---------------- *)

\* an input is the concatenation of at most MaxFragments fragments
MaxFragments == 3

\* the fragments: every single character of the model's alphabet, and the
\* words needed for the keyword cases
Fragments ==
    { <<"+">>, <<"-">>, <<"*">>, <<"/">>, <<" ">>, <<"@">>, <<"3">>,
      <<"a">>, <<"U+00E9">>, <<"i">>, <<"f">>,
      <<"i", "f">>, <<"e", "l", "s", "e">>, <<"I", "F">>,
      <<"E", "l", "s", "e">>, <<"e", "l", "s">>,
      <<"w", "h", "e", "r", "e">>, <<" ", " ">>, <<"*", "*">> }

RECURSIVE Concat(_)
Concat(fs) == IF fs = <<>> THEN <<>> ELSE Head(fs) \o Concat(Tail(fs))

Inputs ==
    { Concat(fs) : fs \in UNION { [1..n -> Fragments] : n \in 0..MaxFragments } }

(* ---------------- characters ---------------- *)

\* Option<char>::None
None == "None"

\* char::is_alphabetic
is_alphabetic(c) ==
    c \in {"a", "U+00E9", "i", "f", "e", "l", "s", "I", "F", "E", "w", "h", "r"}

\* char::len_utf8, the number of bytes a character adds to a String
len_utf8(c) == IF c = "U+00E9" THEN 2 ELSE 1

\* String::len, the length of a String in bytes
RECURSIVE len(_)
len(s) == IF s = <<>> THEN 0 ELSE len_utf8(Head(s)) + len(Tail(s))

(* ---------------- data model ---------------- *)

\* Location::new(line, column)
Location_new(l, c) == [line |-> l, column |-> c]

Plus     == [kind |-> "Plus"]
Minus    == [kind |-> "Minus"]
Star     == [kind |-> "Star"]
StarStar == [kind |-> "StarStar"]
Slash    == [kind |-> "Slash"]
If       == [kind |-> "If"]
Else     == [kind |-> "Else"]
Name(s)  == [kind |-> "Name", text |-> s]

Indent   == [kind |-> "Indent"]
Dedent   == [kind |-> "Dedent"]

NoError == [kind |-> "NoError"]
UnexpectedToken(c, start, end) ==
    [kind |-> "UnexpectedToken", c |-> c, start |-> start, end |-> end]

(* ---------------- helpers of lex ---------------- *)

\* chars.next() with the iterator having yielded p characters: the
\* character it returns and the iterator afterwards
next(p) ==
    IF p < Len(string) THEN [c |-> string[p + 1], chars |-> p + 1]
                       ELSE [c |-> None, chars |-> p]

\* check_keyword matching with starts_with instead of equality
check_keyword_prefix(s) ==
    IF Len(s) >= 2 /\ SubSeq(s, 1, 2) = <<"i", "f">> THEN If
    ELSE IF Len(s) >= 4 /\ SubSeq(s, 1, 4) = <<"e", "l", "s", "e">> THEN Else
    ELSE Name(s)

\* check_keyword
check_keyword(s) ==
    IF s = <<"i", "f">> THEN If
    ELSE IF s = <<"e", "l", "s", "e">> THEN Else
    ELSE Name(s)

\* take_until with the predicate |x| x.is_alphabetic(): the String it
\* returns and the iterator it leaves behind.  Its maybe_c is a copy, so the
\* character that stops the run has been taken from the iterator and is
\* dropped on return.
\* (The state of the loop is bound as values, m, q and d, before the body
\* is evaluated, as Rust evaluates arguments before a call.)
RECURSIVE take_until_from(_, _, _)
take_until_from(mc, p, data) ==
    CHOOSE r \in
        { IF m # None /\ is_alphabetic(m)
          THEN take_until_from(next(q).c, next(q).chars, Append(d, m))
          ELSE [data |-> d, chars |-> q] : m \in {mc}, q \in {p}, d \in {data} } :
        TRUE

\* take_until that ignores the character it is handed and starts from the
\* iterator, losing the first character of the run
take_until_drops_first(mc, p) ==
    take_until_from(next(p).c, next(p).chars, <<>>)

take_until(mc, p) == take_until_from(mc, p, <<>>)

\* push_tok! with the end taken after the advance of column, without the - 1
push_tok_end_past(tok, span) ==
    [token_type |-> tok,
     start |-> Location_new(column, line),
     end   |-> Location_new(column + span, line)]

\* push_tok!(tok, span): the token pushed; column becomes column + span
push_tok(tok, span) ==
    [token_type |-> tok,
     start |-> Location_new(column, line),
     end   |-> Location_new(column + span - 1, line)]

(* ---------------- the call ---------------- *)

Init ==
    /\ string \in Inputs
    /\ chars = next(0).chars
    /\ maybe_c = next(0).c
    /\ column = 1
    /\ line = 1
    /\ result = <<>>
    /\ pc = "loop"
    /\ err = NoError

\* '+' => push_tok!(Plus, 1), then advance!()
LexPlus ==
    /\ pc = "loop" /\ maybe_c = "+"
    /\ result' = Append(result, push_tok(Plus, 1))
    /\ column' = column + 1
    /\ maybe_c' = next(chars).c
    /\ chars' = next(chars).chars
    /\ UNCHANGED <<string, line, pc, err>>

\* '-' => push_tok!(Minus, 1), then advance!()
LexMinus ==
    /\ pc = "loop" /\ maybe_c = "-"
    /\ result' = Append(result, push_tok(Minus, 1))
    /\ column' = column + 1
    /\ maybe_c' = next(chars).c
    /\ chars' = next(chars).chars
    /\ UNCHANGED <<string, line, pc, err>>

\* the '*' arm without the lookahead: every star is a Star
LexStar_no_lookahead ==
    /\ pc = "loop" /\ maybe_c = "*"
    /\ result' = Append(result, push_tok(Star, 1))
    /\ column' = column + 1
    /\ maybe_c' = next(chars).c
    /\ chars' = next(chars).chars
    /\ UNCHANGED <<string, line, pc, err>>

\* the '*' arm ending in the common advance!() instead of continue: the
\* lookahead character that was not a star is passed over
LexStar_skips_lookahead ==
    /\ pc = "loop" /\ maybe_c = "*"
    /\ LET n == next(chars) IN
         IF n.c = "*"
         THEN /\ result' = Append(result, push_tok(StarStar, 2))
              /\ column' = column + 2
              /\ maybe_c' = next(n.chars).c
              /\ chars' = next(n.chars).chars
         ELSE /\ result' = Append(result, push_tok(Star, 1))
              /\ column' = column + 1
              /\ maybe_c' = next(n.chars).c
              /\ chars' = next(n.chars).chars
    /\ UNCHANGED <<string, line, pc, err>>

\* '*' => advance!(), look at the new maybe_c, push StarStar (and advance!()
\* again) or Star, then continue without the trailing advance!()
LexStar ==
    /\ pc = "loop" /\ maybe_c = "*"
    /\ LET n == next(chars) IN
         IF n.c = "*"
         THEN /\ result' = Append(result, push_tok(StarStar, 2))
              /\ column' = column + 2
              /\ maybe_c' = next(n.chars).c
              /\ chars' = next(n.chars).chars
         ELSE /\ result' = Append(result, push_tok(Star, 1))
              /\ column' = column + 1
              /\ maybe_c' = n.c
              /\ chars' = n.chars
    /\ UNCHANGED <<string, line, pc, err>>

\* the alphabetic arm with the character that stopped the run kept as the
\* current character instead of being passed over
LexAlphabetic_redispatches ==
    /\ pc = "loop" /\ maybe_c # None
    /\ maybe_c \notin {"+", "-", "*"} /\ is_alphabetic(maybe_c)
    /\ LET t == take_until(maybe_c, chars)
           stop == chars + Len(t.data)
       IN
         /\ result' = Append(result, push_tok(check_keyword(t.data), len(t.data)))
         /\ column' = column + len(t.data)
         /\ maybe_c' = IF stop <= Len(string) THEN string[stop] ELSE None
         /\ chars' = t.chars
    /\ UNCHANGED <<string, line, pc, err>>

\* _ if c.is_alphabetic() => take_until, push_tok!(check_keyword(s), s.len()),
\* then advance!()
LexAlphabetic ==
    /\ pc = "loop" /\ maybe_c # None
    /\ maybe_c \notin {"+", "-", "*"} /\ is_alphabetic(maybe_c)
    /\ LET t == take_until(maybe_c, chars) IN
         /\ result' = Append(result, push_tok(check_keyword(t.data), len(t.data)))
         /\ column' = column + len(t.data)
         /\ maybe_c' = next(t.chars).c
         /\ chars' = next(t.chars).chars
    /\ UNCHANGED <<string, line, pc, err>>

\* the ' ' arm pushing a layout token for the space
LexSpace_pushes_Indent ==
    /\ pc = "loop" /\ maybe_c = " "
    /\ result' = Append(result, push_tok(Indent, 1))
    /\ column' = column + 1
    /\ maybe_c' = next(chars).c
    /\ chars' = next(chars).chars
    /\ UNCHANGED <<string, line, pc, err>>

\* the ' ' arm without the advance!(): the loop comes back to the same space
LexSpace_no_advance ==
    /\ pc = "loop" /\ maybe_c = " "
    /\ UNCHANGED <<string, chars, maybe_c, column, line, result, pc, err>>

\* ' ' => {}, then advance!()
LexSpace ==
    /\ pc = "loop" /\ maybe_c = " "
    /\ maybe_c' = next(chars).c
    /\ chars' = next(chars).chars
    /\ UNCHANGED <<string, column, line, result, pc, err>>

\* the '/' arm pushing the token of the '*' arm
LexSlash_pushes_Star ==
    /\ pc = "loop" /\ maybe_c = "/"
    /\ result' = Append(result, push_tok(Star, 1))
    /\ column' = column + 1
    /\ maybe_c' = next(chars).c
    /\ chars' = next(chars).chars
    /\ UNCHANGED <<string, line, pc, err>>

\* '/' => push_tok!(Slash, 1), then advance!()
LexSlash ==
    /\ pc = "loop" /\ maybe_c = "/"
    /\ result' = Append(result, push_tok(Slash, 1))
    /\ column' = column + 1
    /\ maybe_c' = next(chars).c
    /\ chars' = next(chars).chars
    /\ UNCHANGED <<string, line, pc, err>>

\* _ => return Err(LexError::UnexpectedToken(c, Location::new(column, line),
\*                                           Location::new(column, line)))
LexUnexpected ==
    /\ pc = "loop" /\ maybe_c # None
    /\ maybe_c \notin {"+", "-", "*", " ", "/"} /\ ~is_alphabetic(maybe_c)
    /\ err' = UnexpectedToken(maybe_c, Location_new(column, line),
                              Location_new(column, line))
    /\ pc' = "Err"
    /\ UNCHANGED <<string, chars, maybe_c, column, line, result>>

\* the None arm treating a scan that produced no token as a failure
LexEnd_rejects_empty ==
    /\ pc = "loop" /\ maybe_c = None
    /\ IF result = <<>>
       THEN /\ pc' = "Err"
            /\ err' = UnexpectedToken(" ", Location_new(column, line),
                                      Location_new(column, line))
       ELSE /\ pc' = "Ok"
            /\ err' = err
    /\ UNCHANGED <<string, chars, maybe_c, column, line, result>>

\* None => break, then Ok(result)
LexEnd ==
    /\ pc = "loop" /\ maybe_c = None
    /\ pc' = "Ok"
    /\ UNCHANGED <<string, chars, maybe_c, column, line, result, err>>

Next ==
    \/ LexPlus
    \/ LexMinus
    \/ LexStar
    \/ LexAlphabetic
    \/ LexSpace
    \/ LexSlash
    \/ LexUnexpected
    \/ LexEnd

Spec == Init /\ [][Next]_vars

\* lex runs to its return without waiting for anything: a step that can be
\* taken is taken
FairSpec == Init /\ [][Next]_vars /\ WF_vars(Next)

(* ---------------- lex as a function of its input ---------------- *)

\* take_until on the input s from its p-th character: the index of the
\* character that stops the run, Len(s) + 1 when the input ends first
RECURSIVE run_end(_, _)
run_end(s, p) ==
    IF p <= Len(s) /\ is_alphabetic(s[p]) THEN run_end(s, p + 1) ELSE p

\* the dispatch loop on the input s with s[p] as the current character (None
\* when p > Len(s)) and the token types toks pushed so far: what lex returns,
\* positions left out
RECURSIVE lex_from(_, _, _)
lex_from(s, p, toks) ==
    IF p > Len(s) THEN [ok |-> TRUE, types |-> toks]
    ELSE IF s[p] = "+" THEN lex_from(s, p + 1, Append(toks, Plus))
    ELSE IF s[p] = "-" THEN lex_from(s, p + 1, Append(toks, Minus))
    ELSE IF s[p] = "*" THEN
        (IF p + 1 <= Len(s) /\ s[p + 1] = "*"
         THEN lex_from(s, p + 2, Append(toks, StarStar))
         ELSE lex_from(s, p + 1, Append(toks, Star)))
    ELSE IF is_alphabetic(s[p]) THEN
        lex_from(s, run_end(s, p) + 1,
                 Append(toks, check_keyword(SubSeq(s, p, run_end(s, p) - 1))))
    ELSE IF s[p] = " " THEN lex_from(s, p + 1, toks)
    ELSE IF s[p] = "/" THEN lex_from(s, p + 1, Append(toks, Slash))
    ELSE [ok |-> FALSE, c |-> s[p]]

\* lex(s)
lex(s) == lex_from(s, 1, <<>>)

(* ---------------- reading a result ---------------- *)

\* the token types of a token sequence, as the tests compare them
Types(toks) == [i \in 1..Len(toks) |-> toks[i].token_type]

Recognized(c) == c \in {"+", "-", "*", "/", " "} \/ is_alphabetic(c)

Unrecognized(s) == { i \in 1..Len(s) : ~Recognized(s[i]) }

FirstUnrecognized(s) ==
    CHOOSE i \in Unrecognized(s) : \A j \in Unrecognized(s) : i <= j

AllAlphabetic(w) == \A i \in 1..Len(w) : is_alphabetic(w[i])

\* the lexemes of the language and the token type each one stands for
IsLexeme(w) ==
    \/ w \in { <<"+">>, <<"-">>, <<"*">>, <<"*", "*">>, <<"/">> }
    \/ w # <<>> /\ AllAlphabetic(w)

TokenOf(w) ==
    CASE w = <<"+">> -> Plus
      [] w = <<"-">> -> Minus
      [] w = <<"*">> -> Star
      [] w = <<"*", "*">> -> StarStar
      [] w = <<"/">> -> Slash
      [] w = <<"i", "f">> -> If
      [] w = <<"e", "l", "s", "e">> -> Else
      [] OTHER -> Name(w)

\* the input cut at its spaces: the maximal space-free pieces, in order
RECURSIVE WordsFrom(_, _)
WordsFrom(s, w) ==
    IF s = <<>> THEN (IF w = <<>> THEN <<>> ELSE <<w>>)
    ELSE IF Head(s) = " "
         THEN (IF w = <<>> THEN <<>> ELSE <<w>>) \o WordsFrom(Tail(s), <<>>)
         ELSE WordsFrom(Tail(s), Append(w, Head(s)))

Words(s) == WordsFrom(s, <<>>)

\* a space-free input cut into lexemes: maximal alphabetic runs, "**" where
\* two stars meet, and single characters otherwise
RECURSIVE LexemesFrom(_, _)
LexemesFrom(s, w) ==
    IF s = <<>> THEN (IF w = <<>> THEN <<>> ELSE <<w>>)
    ELSE IF is_alphabetic(Head(s))
         THEN LexemesFrom(Tail(s), Append(w, Head(s)))
         ELSE (IF w = <<>> THEN <<>> ELSE <<w>>) \o
              (IF Head(s) = "*" /\ Len(s) >= 2 /\ s[2] = "*"
               THEN <<(<<"*", "*">>)>> \o LexemesFrom(Tail(Tail(s)), <<>>)
               ELSE <<(<<Head(s)>>)>> \o LexemesFrom(Tail(s), <<>>))

Lexemes(s) == LexemesFrom(s, <<>>)

Expected(ws) == [i \in 1..Len(ws) |-> TokenOf(ws[i])]

IsPrefix(a, b) == Len(a) <= Len(b) /\ \A i \in 1..Len(a) : a[i] = b[i]

(* ---------------- C1 ---------------- *)

\* C1: for every input that contains a character that is neither '+', '-',
\* '*', '/', a space nor alphabetic, lex never returns Ok, and the error it
\* returns carries the first such character of the input.
C1_UnexpectedAlwaysRejected ==
    Unrecognized(string) # {} =>
        /\ pc # "Ok"
        /\ pc = "Err" => err.c = string[FirstUnrecognized(string)]

(* ---------------- C2 ---------------- *)

\* the inputs of C2: recognized characters only, no space, and no three
\* stars in a row (so that the input is lexemes in exactly one way)
Adjacent(s) ==
    /\ s # <<>>
    /\ \A i \in 1..Len(s) : Recognized(s[i]) /\ s[i] # " "
    /\ \A i \in 1..(Len(s) - 2) : ~(s[i] = "*" /\ s[i+1] = "*" /\ s[i+2] = "*")

\* C2: for every input made of lexemes written directly next to each other,
\* lex returns Ok with exactly one token per lexeme, in input order and of
\* the matching kind.
C2_AdjacentLexemes ==
    Adjacent(string) =>
        /\ pc # "Err"
        /\ pc = "Ok" => Types(result) = Expected(Lexemes(string))

(* ---------------- C3 ---------------- *)

\* the inputs of C3: lexemes joined by one or more spaces
SpaceJoined(s) ==
    /\ s # <<>> /\ s[1] # " " /\ s[Len(s)] # " "
    /\ \A i \in 1..Len(Words(s)) : IsLexeme(Words(s)[i])

\* C3: for every sequence of lexemes joined by one or more spaces, lex
\* returns Ok with exactly one token per lexeme, in order and of the matching
\* kind, and no token for any space.
C3_SpaceJoinedLexemes ==
    SpaceJoined(string) =>
        /\ pc # "Err"
        /\ pc = "Ok" => Types(result) = Expected(Words(string))

\* "  " between two lexemes, the first one an alphabetic run
C3_Witness ==
    /\ pc = "Ok" /\ SpaceJoined(string)
    /\ Len(result) = 2 /\ Len(string) >= 4
    /\ is_alphabetic(string[1])
    /\ \E i \in 1..(Len(string) - 1) : string[i] = " " /\ string[i+1] = " "

(* ---------------- C4 ---------------- *)

StarRun(s) == s # <<>> /\ \A i \in 1..Len(s) : s[i] = "*"

\* C4: an input that is a run of n >= 1 '*' characters yields floor(n/2)
\* StarStar tokens followed by (n mod 2) Star tokens: two adjacent stars are
\* one StarStar, never two Star, and a last star left alone is a Star.
C4_StarRuns ==
    StarRun(string) =>
        /\ pc # "Err"
        /\ pc = "Ok" =>
             Types(result) =
                 [i \in 1..((Len(string) \div 2) + (Len(string) % 2)) |->
                     IF i <= Len(string) \div 2 THEN StarStar ELSE Star]

\* "*****": two StarStar, then the last star as Star
C4_Witness ==
    /\ pc = "Ok" /\ StarRun(string) /\ Len(string) = 5
    /\ Types(result) = <<StarStar, StarStar, Star>>

(* ---------------- C5 ---------------- *)

\* C5: an input that is a single non-empty run of alphabetic characters other
\* than "if" and "else" lexes to exactly one token, Name(text), whose text is
\* the whole input.
C5_SingleRunIsName ==
    (string # <<>> /\ AllAlphabetic(string)
        /\ string # <<"i", "f">> /\ string # <<"e", "l", "s", "e">>) =>
        /\ pc # "Err"
        /\ pc = "Ok" => Types(result) = <<Name(string)>>

\* a run of several characters, one of them not ASCII
C5_Witness ==
    /\ pc = "Ok" /\ AllAlphabetic(string) /\ Len(string) >= 3
    /\ \E i \in 1..Len(string) : string[i] = "U+00E9"
    /\ Len(result) = 1 /\ result[1].token_type.kind = "Name"

(* ---------------- C6 ---------------- *)

\* the maximal alphabetic runs of an input, in order
RECURSIVE RunsFrom(_, _)
RunsFrom(s, w) ==
    IF s = <<>> THEN (IF w = <<>> THEN <<>> ELSE <<w>>)
    ELSE IF is_alphabetic(Head(s))
         THEN RunsFrom(Tail(s), Append(w, Head(s)))
         ELSE (IF w = <<>> THEN <<>> ELSE <<w>>) \o RunsFrom(Tail(s), <<>>)

Runs(s) == RunsFrom(s, <<>>)

IsRunToken(t) == t.kind \in {"If", "Else", "Name"}

\* C6: an alphabetic run is emitted as If exactly when its text is "if" and
\* as Else exactly when its text is "else"; every other run is emitted as
\* Name carrying its text, and Name("if") and Name("else") are never emitted.
C6_KeywordsExact ==
    LET emitted == SelectSeq(Types(result), IsRunToken)
        runs == Runs(string)
    IN /\ Len(emitted) <= Len(runs)
       /\ pc = "Ok" => Len(emitted) = Len(runs)
       /\ \A i \in 1..Len(emitted) :
            /\ emitted[i] = If <=> runs[i] = <<"i", "f">>
            /\ emitted[i] = Else <=> runs[i] = <<"e", "l", "s", "e">>
            /\ emitted[i] \notin {If, Else} => emitted[i] = Name(runs[i])
            /\ emitted[i] # Name(<<"i", "f">>)
            /\ emitted[i] # Name(<<"e", "l", "s", "e">>)

\* a keyword next to its look-alike: "if IF" is If, then the name "IF"
C6_Witness ==
    /\ pc = "Ok"
    /\ Types(result) = <<If, Name(<<"I", "F">>)>>

(* ---------------- C7 ---------------- *)

\* C7: every token of every successful result has start.line = end.line and
\* start.column <= end.column.
C7_TokenOnOneLine ==
    pc = "Ok" =>
        \A i \in 1..Len(result) :
            /\ result[i].start.line = result[i].end.line
            /\ result[i].start.column <= result[i].end.column

(* ---------------- C8 ---------------- *)

\* the number of characters of the lexeme a token type was made from
LexemeChars(t) ==
    CASE t.kind = "Name" -> Len(t.text)
      [] t.kind = "If" -> 2
      [] t.kind = "Else" -> 4
      [] t.kind = "StarStar" -> 2
      [] OTHER -> 1

\* at a dispatch step the current character is string[chars], so chars - 1
\* characters have been consumed before it; at the end all of them have
ColumnIsIndex ==
    pc = "loop" =>
        column = IF maybe_c = None THEN Len(string) + 1 ELSE chars

\* C8: at every dispatch step column equals 1 plus the number of input
\* characters already consumed, and the token a step pushes starts at the
\* 1-based index of its first character (the character dispatched on) and
\* ends at the index of its last character.
C8_ColumnTracksInput ==
    [][ /\ ColumnIsIndex
        /\ ColumnIsIndex'
        /\ Len(result') > Len(result) =>
             LET t == result'[Len(result')] IN
               /\ t.start.column = chars
               /\ t.end.column = chars + LexemeChars(t.token_type) - 1 ]_vars

(* ---------------- C9 ---------------- *)

\* C9: when lex returns Err(UnexpectedToken(c, start, end)), c is the
\* rejected character, start equals end, and that Location has line 1 and
\* column equal to the 1-based index of c in the input.
C9_ErrorLocation ==
    pc = "Err" =>
        /\ err.c = string[chars]
        /\ err.start = err.end
        /\ err.start.line = 1
        /\ err.start.column = chars

(* ---------------- C10 ---------------- *)

\* C10: the span of every token, end position minus start position plus one,
\* is the number of characters of its lexeme: 1 for Plus, Minus, Star and
\* Slash, 2 for StarStar, and the character count of the run for Name, If
\* and Else.
C10_SpanIsCharCount ==
    \A i \in 1..Len(result) :
        result[i].end.column - result[i].start.column + 1
            = LexemeChars(result[i].token_type)

(* ---------------- C11 ---------------- *)

\* C11: every Location that lex puts in a token or in an error has line
\* equal to 1, for every input.
C11_LineIsOne ==
    /\ \A i \in 1..Len(result) :
          result[i].start.line = 1 /\ result[i].end.line = 1
    /\ pc = "Err" => err.start.line = 1 /\ err.end.line = 1

(* ---------------- C12 ---------------- *)

OnlySpaces(s) == \A i \in 1..Len(s) : s[i] = " "

\* C12: lex of the empty input returns Ok with an empty token sequence, and
\* so does lex of any input made only of spaces; neither returns an error.
C12_EmptyAndSpaces ==
    OnlySpaces(string) =>
        /\ pc # "Err"
        /\ result = <<>>

\* the empty input has returned Ok([])
C12_Witness ==
    /\ pc = "Ok" /\ string = <<>> /\ result = <<>>

\* an input of several spaces has returned Ok([])
C12_WitnessSpaces ==
    /\ pc = "Ok" /\ OnlySpaces(string) /\ Len(string) >= 3 /\ result = <<>>

(* ---------------- C13 ---------------- *)

\* the characters not yet dispatched: the current one and those the
\* character source still holds
Remaining == (Len(string) - chars) + (IF maybe_c = None THEN 0 ELSE 1)

Terminal == pc \in {"Ok", "Err"}

\* C13: every call of lex terminates; every iteration of the dispatch loop
\* that goes round again has used up at least one character; Ok is reached
\* only with the character source exhausted and Err only at a rejected
\* character, before which no unrecognized character was dispatched; and
\* after Ok or Err nothing changes: no token is emitted, no character read.
C13_Terminates ==
    /\ <>Terminal
    /\ [][ /\ pc = "loop"
           /\ pc' = "loop" => Remaining' < Remaining
           /\ pc' # "loop" => result' = result /\ chars' = chars ]_vars
    /\ [](pc = "Ok" => maybe_c = None /\ chars = Len(string) /\ err = NoError)
    /\ [](pc = "Err" => /\ maybe_c = string[chars] /\ ~Recognized(maybe_c)
                        /\ err.c = maybe_c)
    /\ [](pc \in {"loop", "Ok", "Err"})

\* a scan of several iterations has reached Done
C13_Witness ==
    /\ pc = "Ok" /\ Len(result) >= 3 /\ Len(string) >= 5

\* a scan has reached Errored after emitting tokens
C13_WitnessErr ==
    /\ pc = "Err" /\ Len(result) >= 2

(* ---------------- C14 ---------------- *)

\* Location a is strictly before Location b, compared by (line, column)
Before(a, b) == a.line < b.line \/ (a.line = b.line /\ a.column < b.column)

\* C14: in every successful result, the end Location of each token is
\* strictly before the start Location of the token after it, Locations
\* being compared by (line, column).
C14_StrictlyIncreasing ==
    pc = "Ok" =>
        \A i \in 1..(Len(result) - 1) :
            Before(result[i].end, result[i + 1].start)

\* a result of three tokens, one of them wider than one position
C14_Witness ==
    /\ pc = "Ok" /\ Len(result) = 3
    /\ \E i \in 1..3 : result[i].token_type.kind \in {"StarStar", "Name", "Else"}

(* ---------------- C15 ---------------- *)

NoAlphabetic(s) == \A i \in 1..Len(s) : ~is_alphabetic(s[i])

\* the lexemes of an input without letters: those of its words, in order
RECURSIVE LexemesOfWords(_)
LexemesOfWords(ws) ==
    IF ws = <<>> THEN <<>> ELSE Lexemes(Head(ws)) \o LexemesOfWords(Tail(ws))

\* C15: when the character read after a '*' is not '*', Star is emitted and
\* that character is the current character of the next dispatch step; so in
\* an input without letters every character after a star produces its own
\* token, is skipped if it is a space, or raises UnexpectedToken.
C15_LookaheadKept ==
    /\ [][ (pc = "loop" /\ maybe_c = "*"
              /\ (chars < Len(string) => string[chars + 1] # "*")) =>
           /\ Types(result') = Append(Types(result), Star)
           /\ pc' = "loop"
           /\ IF chars < Len(string)
              THEN maybe_c' = string[chars + 1] /\ chars' = chars + 1
              ELSE maybe_c' = None /\ chars' = chars ]_vars
    /\ [](NoAlphabetic(string) =>
            /\ pc = "Ok" => /\ Unrecognized(string) = {}
                            /\ Types(result) = Expected(LexemesOfWords(Words(string)))
            /\ pc = "Err" => /\ Unrecognized(string) # {}
                             /\ err.c = string[FirstUnrecognized(string)])

\* "*-" has given [Star, Minus]
C15_Witness ==
    /\ pc = "Ok" /\ string = <<"*", "-">> /\ Types(result) = <<Star, Minus>>

\* "*@" has given Err with '@'
C15_WitnessErr ==
    /\ pc = "Err" /\ string = <<"*", "@">> /\ err.c = "@"

(* ---------------- C16 ---------------- *)

\* C16: when take_until returns because a character fails the predicate, that
\* character has not been taken from the character stream: the next
\* character the stream yields to the caller (the advance!() that follows
\* the call in lex) is the stopping character.
C16_StopCharNotConsumed ==
    [][ (pc = "loop" /\ maybe_c # None /\ is_alphabetic(maybe_c)) =>
          LET stop == chars + Len(take_until(maybe_c, chars).data)
          IN stop <= Len(string) => maybe_c' = string[stop] ]_vars

(* ---------------- C17 ---------------- *)

\* C17: no result of lex contains a token of kind Indent or Dedent.
C17_NoLayoutTokens ==
    \A i \in 1..Len(result) : result[i].token_type \notin {Indent, Dedent}

\* a successful result with tokens after spaces, none of them a layout token
C17_Witness ==
    /\ pc = "Ok" /\ Len(string) >= 3 /\ string[1] = " " /\ string[2] = " "
    /\ Len(result) >= 1

(* ---------------- C18 ---------------- *)

\* the input is R c T: a maximal alphabetic run R, one more character c
\* (not alphabetic, as R is maximal), and the rest T
IsRunCharText(s) ==
    /\ s # <<>> /\ is_alphabetic(s[1])
    /\ Len(Runs(s)[1]) < Len(s)

RunOf(s) == Runs(s)[1]

TextOf(s) == SubSeq(s, Len(RunOf(s)) + 2, Len(s))

\* C18: for every input R c T, lex(R c T) succeeds exactly when lex(T)
\* succeeds, and then its token types are the token of R followed by those
\* of lex(T); when lex(T) fails, lex(R c T) fails with the same character.
\* (What the call on string returns is also what lex(string) is.)
C18_RunThenAnyChar ==
    /\ pc = "Ok" => lex(string) = [ok |-> TRUE, types |-> Types(result)]
    /\ pc = "Err" => lex(string) = [ok |-> FALSE, c |-> err.c]
    /\ IsRunCharText(string) =>
         /\ pc = "Ok" =>
              /\ lex(TextOf(string)).ok
              /\ Types(result) =
                   <<TokenOf(RunOf(string))>> \o lex(TextOf(string)).types
         /\ pc = "Err" =>
              /\ ~lex(TextOf(string)).ok
              /\ err.c = lex(TextOf(string)).c

\* a keyword, an operator that is passed over, and a text with tokens
C18_Witness ==
    /\ pc = "Ok" /\ IsRunCharText(string)
    /\ string[Len(RunOf(string)) + 1] \in {"+", "@"}
    /\ Len(result) >= 2 /\ result[1].token_type = If

\* a run, a character, and a text that is rejected
C18_WitnessErr ==
    /\ pc = "Err" /\ IsRunCharText(string) /\ Len(result) = 1

(* ---------------- C19 ---------------- *)

RECURSIVE SumSpans(_)
SumSpans(toks) ==
    IF toks = <<>> THEN 0
    ELSE (Head(toks).end.column - Head(toks).start.column + 1)
         + SumSpans(Tail(toks))

\* C19: the first token starts at position 1 and each later token starts at
\* exactly the end position of the token before it plus one; equivalently,
\* at every dispatch step the column counter is 1 plus the sum of the spans
\* of the tokens emitted so far.
C19_PackedPositions ==
    /\ result # <<>> => result[1].start = Location_new(1, 1)
    /\ \A i \in 1..(Len(result) - 1) :
          result[i + 1].start =
              Location_new(result[i].end.line, result[i].end.column + 1)
    /\ pc = "loop" => column = 1 + SumSpans(result)

====
